---- MODULE Spec2Model ----
(***************************************************************************)
(* Model of parsl/executors/ipp.py: IPyParallelExecutor, the manager of a  *)
(* pool of provider blocks (start, scale_out, scale_in, status, shutdown). *)
(* Every call is run by a caller; a call is a sequence of steps, one step  *)
(* per external call the method makes (controller, provider) so that calls *)
(* of different callers can interleave where the code allows it.           *)
(***************************************************************************)
EXTENDS Integers, Sequences, FiniteSets, TLC

\* ------------------------------------------------------------------ bounds
MaxBlocks == 2      \* largest `blocks` argument of scale_out / scale_in
MaxInit == 2        \* largest provider.init_blocks
MaxIds == 2         \* block ids the provider can hand out in one run

\* --------------------------------------------------------------- constants
DefaultWorkers == 1 \* workers_per_node: int = 1

Callers == {1, 2}
SeqCallers == {1}

BlockIds == 1..MaxIds
None == 0           \* a falsy submit result (None / empty id)

VARIABLES
    provider,           \* self.provider is truthy (a provider is configured)
    init_blocks,        \* provider.init_blocks, -1 when the provider has no such attribute
    controller,         \* self.controller is truthy
    engine_debug_level, \* self.engine_debug_level, as the text the format prints
    attrs,              \* the attributes start() has assigned so far
    launch_cmd,         \* self.launch_cmd
    engines,            \* self.engines, the registry of block ids
    scaling_enabled,    \* self._scaling_enabled
    jobs,               \* the provider's table: block id -> status
    state,              \* lifecycle position of the pool
    shutdowns,          \* shutdown() was called: never, on a pool never started, on a started pool
    frame               \* per caller: the call in progress or last finished

vars == <<provider, init_blocks, controller, engine_debug_level, attrs, launch_cmd, engines,
          scaling_enabled, jobs, state, shutdowns, frame>>

config == <<provider, init_blocks, controller, engine_debug_level>>

\* ------------------------------------------------------------ pure helpers
Min(a, b) == IF a < b THEN a ELSE b

Range(s) == {s[k] : k \in 1..Len(s)}

Take(s, n) == SubSeq(s, 1, Min(n, Len(s)))

NoCmd == [composed |-> FALSE, uid |-> 0, debug_option |-> ""]

IdleFrame ==
    [pc |-> "idle", op |-> "none", n |-> 0, i |-> 0, nested |-> FALSE,
     out |-> "none", exc |-> "", ret |-> "None", retList |-> <<>>,
     submits |-> <<>>, queries |-> <<>>, cancels |-> <<>>, logs |-> <<>>,
     closes |-> 0, composed |-> 0, waited |-> "none", client_file |-> "unknown",
     lb_view |-> FALSE, after |-> "none", failed |-> "",
     status |-> <<>>, to_kill |-> <<>>, entryEngines |-> <<>>]

\* ------------------------------------------------------------------- Init
Constructed ==
    /\ provider \in BOOLEAN
    /\ init_blocks \in (IF provider THEN -1..MaxInit ELSE {-1})
    /\ controller \in BOOLEAN
    /\ attrs = {}
    /\ launch_cmd = NoCmd
    /\ engines = <<>>
    /\ scaling_enabled = FALSE
    /\ jobs = [b \in BlockIds |-> "NONE"]
    /\ state = "UNSTARTED"
    /\ shutdowns = "none"
    /\ frame = [t \in Callers |-> IdleFrame]

\* engine_debug_level: Optional[str] = None
Init ==
    /\ engine_debug_level = "None"
    /\ Constructed

\* ------------------------------------------------- provider (external code)
\* block ids are handed out in increasing order, never reused
NextId == Cardinality({b \in BlockIds : jobs[b] # "NONE"}) + 1

JobStatus(b) == IF b \in DOMAIN jobs THEN jobs[b] ELSE "UNKNOWN"

\* what provider.submit can return: a fresh block id, or a falsy value
SubmitReturns == {None} \cup (IF NextId <= MaxIds THEN {NextId} ELSE {})

\* the provider's table after submit returned `block`
ProviderSubmit(block) ==
    IF block \in BlockIds THEN [jobs EXCEPT ![block] = "PENDING"] ELSE jobs

\* provider.status(ids): one status per id, in the order asked
ProviderStatus(ids) == [k \in 1..Len(ids) |-> JobStatus(ids[k])]

\* the provider's table after provider.cancel(ids)
ProviderCancel(ids) ==
    [b \in BlockIds |-> IF b \in Range(ids) THEN "CANCELLED" ELSE jobs[b]]

\* a block changes status on its own on the provider's side
ProviderAdvance ==
    /\ \E b \in BlockIds :
        \/ jobs[b] = "PENDING" /\ jobs' = [jobs EXCEPT ![b] = "RUNNING"]
        \/ jobs[b] = "RUNNING" /\ jobs' = [jobs EXCEPT ![b] = "COMPLETED"]
    /\ UNCHANGED <<config, attrs, launch_cmd, engines, scaling_enabled, state,
                   shutdowns, frame>>

\* --------------------------------------------------- the code's expressions
\* a loop that runs once too often
LoopContinues_inclusive(i, blocks) == i <= blocks

\* for i in range(blocks)
LoopContinues(i, blocks) == i < blocks

\* a test that lets a falsy block id through
SubmitFailed_never(block) == FALSE

\* if not block
SubmitFailed(block) == block = None

\* a registry that takes new blocks at its front
Extend_front(engs, block) == <<block>> \o engs

\* self.engines.extend([block])
Extend(engs, block) == Append(engs, block)

\* self.engines = []
InitialEngines == <<>>

\* a test that takes the expiry of the wait for the absence of the file
ClientFileMissing_onExpiry(expired, exists) == expired

\* if not os.path.exists(self.controller.client_file): the wait itself decides nothing
ClientFileMissing(expired, exists) == ~exists

\* lines 99-101: self.debug_option, "" for a falsy level (None, 0)
DebugOption(level) ==
    IF level \in {"None", "0"} THEN "" ELSE "--log-level=" \o level

\* uuid.uuid4(): a value no launch command in use has. Uuids are only compared for
\* equality, so the least unused number stands for it.
UsedUids ==
    {launch_cmd.uid} \cup
    UNION {{frame[t].submits[k].cmd.uid : k \in 1..Len(frame[t].submits)} : t \in Callers}

Uuid4 ==
    CHOOSE u \in 1..(Cardinality(UsedUids) + 1) :
        u \notin UsedUids /\ \A v \in 1..(u - 1) : v \in UsedUids

\* command_composer(...): the configuration is fixed, so a launch command is
\* told from another by the uuid4 drawn for it
Compose(uid) ==
    [composed |-> TRUE, uid |-> uid, debug_option |-> DebugOption(engine_debug_level)]

\* a submission whose command is composed afresh
SubmitArgs_recomposed == [cmd |-> Compose(Uuid4), workers |-> DefaultWorkers]

\* line 258: the arguments of provider.submit(self.launch_cmd, self.workers_per_node)
SubmitArgs == [cmd |-> launch_cmd, workers |-> DefaultWorkers]

\* the keys of dict(zip(engs, st)), in insertion order
RECURSIVE DictKeys(_)
DictKeys(z) ==
    IF z = <<>> THEN <<>>
    ELSE LET r == DictKeys(SubSeq(z, 1, Len(z) - 1))
         IN IF z[Len(z)] \in Range(r) THEN r ELSE Append(r, z[Len(z)])

\* dict(zip(engs, st))[e]: the status zipped with the last occurrence of e
DictValue(engs, st, e) ==
    LET m == Min(Len(engs), Len(st))
        k == CHOOSE k \in 1..m : engs[k] = e /\ \A j \in (k + 1)..m : engs[j] # e
    IN st[k]

\* a slice that forgets its bound
Slice_all(s, n) == s

\* s[:n]
Slice(s, n) == IF n >= 0 THEN Take(s, n) ELSE SubSeq(s, 1, Len(s) + n)

\* a selection that takes the RUNNING blocks from the end of the registry
ToKill_newest(engs, st, blocks) ==
    LET keys == DictKeys(Take(engs, Min(Len(engs), Len(st))))
        IsRunning(e) == DictValue(engs, st, e) = "RUNNING"
        run == SelectSeq(keys, IsRunning)
    IN SubSeq(run, Len(run) - Min(blocks, Len(run)) + 1, Len(run))

\* [engine for engine in status if status[engine] == "RUNNING"][:blocks]
ToKill(engs, st, blocks) ==
    LET keys == DictKeys(Take(engs, Min(Len(engs), Len(st))))
        IsRunning(e) == DictValue(engs, st, e) = "RUNNING"
    IN Slice(SelectSeq(keys, IsRunning), blocks)

\* a start() that takes every pool for an elastic one
ScalingEnabled_always == TRUE

\* lines 129-130, 139-140: self.provider.scaling_enabled (True for the providers in
\* use) when there is a provider, False when there is none
ScalingEnabled == provider

\* a status() that asks the provider without looking whether there is one
StatusAsksProvider_always == TRUE

\* line 286: if self.provider
StatusAsksProvider == provider

\* a shutdown() that falls off its end
ShutdownReturn_none == "None"

\* the value shutdown() returns
ShutdownReturn == "True"

\* -------------------------------------------------------- call bookkeeping
\* the method returns v; its local variables are gone
Return(f, v) ==
    [f EXCEPT !.pc = "idle", !.out = "return", !.ret = v,
              !.i = 0, !.status = <<>>, !.to_kill = <<>>]

\* a handler in start() that logs the exception and goes on
Raise_swallowed(f, e) ==
    IF f.nested
    THEN [f EXCEPT !.pc = "start_lb", !.nested = FALSE,
                   !.logs = Append(@, "Scaling out failed")]
    ELSE [f EXCEPT !.pc = "idle", !.out = "raise", !.exc = e,
                   !.i = 0, !.status = <<>>, !.to_kill = <<>>]

\* an exception that is logged, after which the method returns normally
Raise_logged(f, e) ==
    [f EXCEPT !.pc = "idle", !.out = "return", !.ret = "None",
              !.i = 0, !.status = <<>>, !.to_kill = <<>>,
              !.logs = Append(@, e)]

\* an exception leaves the method; inside start()'s try it is logged and re-raised
Raise(f, e) ==
    [f EXCEPT !.pc = "idle", !.out = "raise", !.exc = e,
              !.i = 0, !.status = <<>>, !.to_kill = <<>>,
              !.logs = IF f.nested THEN Append(@, "Scaling out failed") ELSE @]

Enter(op, pc, n) ==
    [IdleFrame EXCEPT !.pc = pc, !.op = op, !.n = n, !.out = "running",
                      !.entryEngines = engines]

Finished(t, op) == frame[t].pc = "idle" /\ frame[t].op = op

\* ---------------------------------------------------------------- start()
CallStart(t) ==
    /\ frame[t].pc = "idle"
    /\ frame' = [frame EXCEPT ![t] = Enter("start", "start_begin", 0)]
    /\ state' = "STARTING"
    /\ UNCHANGED <<config, attrs, launch_cmd, engines, scaling_enabled, jobs,
                   shutdowns>>

\* lines 104-117: controller.start(), the bounded wait for the client file, the
\* existence test. The wait ends because the file appeared or because it expired;
\* the file may still appear between the expiry and the test.
StartBegin(t) ==
    LET f == frame[t] IN
    /\ f.pc = "start_begin"
    /\ IF ~controller
       THEN /\ frame' = [frame EXCEPT ![t] = Raise(f, "AttributeError")]
            /\ attrs' = attrs
       ELSE \E expired \in BOOLEAN, exists \in BOOLEAN :
            /\ ~expired => exists
            /\ attrs' = attrs \cup {"engine_file"}
            /\ LET g == [f EXCEPT !.waited = IF expired THEN "expired" ELSE "appeared",
                                   !.client_file = IF exists THEN "present" ELSE "missing"]
               IN frame' = [frame EXCEPT ![t] =
                      IF ClientFileMissing(expired, exists) THEN Raise(g, "Exception")
                      ELSE [g EXCEPT !.pc = "start_compose"]]
    /\ UNCHANGED <<config, launch_cmd, engines, scaling_enabled, jobs, state,
                   shutdowns>>

\* lines 119-141: the Client, the launch command (its composer may fail to read the
\* engine file), the empty registry; then the branch on the provider
StartCompose(t) ==
    LET f == frame[t] IN
    /\ f.pc = "start_compose"
    /\ \E readable \in BOOLEAN :
        IF ~readable
        THEN /\ frame' = [frame EXCEPT ![t] =
                    Raise([f EXCEPT !.logs = Append(@, "Could not open engine_json")],
                          "OSError")]
             /\ attrs' = attrs \cup {"executor"}
             /\ UNCHANGED <<launch_cmd, engines, scaling_enabled>>
        ELSE /\ launch_cmd' = Compose(Uuid4)
             /\ engines' = InitialEngines
             /\ attrs' = attrs \cup {"executor", "launch_cmd", "engines", "_scaling_enabled"}
             /\ scaling_enabled' = ScalingEnabled
             /\ frame' = [frame EXCEPT ![t] =
                    IF provider /\ init_blocks >= 0
                    THEN [f EXCEPT !.pc = "so_loop", !.nested = TRUE, !.composed = 1,
                                   !.n = init_blocks, !.i = 0]
                    ELSE [f EXCEPT !.pc = "start_lb", !.composed = 1]]
    /\ UNCHANGED <<config, jobs, state, shutdowns>>

\* lines 143-144: the load-balanced view; the executor can now take tasks
StartFinish(t) ==
    LET f == frame[t] IN
    /\ f.pc = "start_lb"
    /\ attrs' = attrs \cup {"lb_view"}
    /\ state' = "ACTIVE"
    /\ frame' = [frame EXCEPT ![t] = Return([f EXCEPT !.lb_view = TRUE], "None")]
    /\ UNCHANGED <<config, launch_cmd, engines, scaling_enabled, jobs,
                   shutdowns>>

\* ------------------------------------------------------------ scale_out()
CallScaleOut(t, blocks) ==
    /\ frame[t].pc = "idle"
    /\ frame' = [frame EXCEPT ![t] = Enter("scale_out", "so_loop", blocks)]
    /\ UNCHANGED <<config, attrs, launch_cmd, engines, scaling_enabled, jobs, state,
                   shutdowns>>

\* lines 256-264: one iteration of the loop
ScaleOutIter(t) ==
    LET f == frame[t] IN
    /\ f.pc = "so_loop"
    /\ LoopContinues(f.i, f.n)
    /\ IF ~provider
       THEN /\ frame' = [frame EXCEPT ![t].i = f.i + 1]
            /\ UNCHANGED <<engines, jobs>>
       ELSE IF "launch_cmd" \notin attrs
       THEN /\ frame' = [frame EXCEPT ![t] = Raise(f, "AttributeError")]
            /\ UNCHANGED <<engines, jobs>>
       ELSE \/ \* provider.submit raises
               /\ frame' = [frame EXCEPT ![t] =
                      Raise([f EXCEPT !.submits = Append(@,
                                [cmd |-> SubmitArgs.cmd, workers |-> SubmitArgs.workers,
                                 raised |-> TRUE, block |-> None])],
                            "ProviderError")]
               /\ UNCHANGED <<engines, jobs>>
            \/ \E block \in SubmitReturns :
               LET g == [f EXCEPT !.submits = Append(@,
                            [cmd |-> SubmitArgs.cmd, workers |-> SubmitArgs.workers,
                             raised |-> FALSE, block |-> block])]
               IN /\ jobs' = ProviderSubmit(block)
                  /\ IF SubmitFailed(block)
                     THEN /\ frame' = [frame EXCEPT ![t] = Raise(g, "ScalingFailed")]
                          /\ engines' = engines
                     ELSE /\ engines' = Extend(engines, block)
                          /\ frame' = [frame EXCEPT ![t] = [g EXCEPT !.i = f.i + 1]]
    /\ UNCHANGED <<config, attrs, launch_cmd, scaling_enabled, state, shutdowns>>

\* lines 265-268: the loop's else clause runs when the loop ends without a break
ScaleOutDone(t) ==
    LET f == frame[t]
        g == [f EXCEPT !.logs = Append(@, "No execution provider available")]
    IN
    /\ f.pc = "so_loop"
    /\ ~LoopContinues(f.i, f.n)
    /\ frame' = [frame EXCEPT ![t] =
           IF f.nested THEN [g EXCEPT !.pc = "start_lb", !.nested = FALSE]
           ELSE Return(g, "None")]
    /\ UNCHANGED <<config, attrs, launch_cmd, engines, scaling_enabled, jobs, state,
                   shutdowns>>

\* ------------------------------------------------------------- scale_in()
CallScaleIn(t, blocks) ==
    /\ frame[t].pc = "idle"
    /\ frame' = [frame EXCEPT ![t] = Enter("scale_in", "si_status", blocks)]
    /\ UNCHANGED <<config, attrs, launch_cmd, engines, scaling_enabled, jobs, state,
                   shutdowns>>

\* lines 274-277: the status of every registered block, and the blocks to kill
ScaleInStatus(t) ==
    LET f == frame[t] IN
    /\ f.pc = "si_status"
    /\ IF "engines" \notin attrs \/ ~provider
       THEN frame' = [frame EXCEPT ![t] = Raise(f, "AttributeError")]
       ELSE LET g == [f EXCEPT !.queries = Append(@, engines)] IN
            \/ \* provider.status raises
               frame' = [frame EXCEPT ![t] =
                      Raise([g EXCEPT !.failed = "status"], "ProviderError")]
            \/ LET st == ProviderStatus(engines)
               IN frame' = [frame EXCEPT ![t] =
                      [g EXCEPT !.pc = "si_cancel", !.status = st,
                                !.to_kill = ToKill(engines, st, f.n)]]
    /\ UNCHANGED <<config, attrs, launch_cmd, engines, scaling_enabled, jobs, state,
                   shutdowns>>

\* lines 279-282: cancel them, or log that there is no provider
ScaleInCancel(t) ==
    LET f == frame[t] IN
    /\ f.pc = "si_cancel"
    /\ IF provider
       THEN LET g == [f EXCEPT !.cancels = Append(@, f.to_kill)] IN
            \/ \* provider.cancel raises
               /\ frame' = [frame EXCEPT ![t] =
                      Raise([g EXCEPT !.failed = "cancel"], "ProviderError")]
               /\ jobs' = jobs
            \/ /\ frame' = [frame EXCEPT ![t] = Return(g, "None")]
               /\ jobs' = ProviderCancel(f.to_kill)
       ELSE /\ frame' = [frame EXCEPT ![t] =
                   Return([f EXCEPT !.logs = Append(@, "No execution provider available")],
                          "None")]
            /\ jobs' = jobs
    /\ UNCHANGED <<config, attrs, launch_cmd, engines, scaling_enabled, state,
                   shutdowns>>

\* --------------------------------------------------------------- status()
CallStatus(t) ==
    /\ frame[t].pc = "idle"
    /\ frame' = [frame EXCEPT ![t] = Enter("status", "st_query", 0)]
    /\ UNCHANGED <<config, attrs, launch_cmd, engines, scaling_enabled, jobs, state,
                   shutdowns>>

\* lines 286-292
StatusQuery(t) ==
    LET f == frame[t] IN
    /\ f.pc = "st_query"
    /\ IF StatusAsksProvider
       THEN IF "engines" \notin attrs
            THEN frame' = [frame EXCEPT ![t] = Raise(f, "AttributeError")]
            ELSE LET g == [f EXCEPT !.queries = Append(@, engines)] IN
                 \/ \* provider.status raises
                    frame' = [frame EXCEPT ![t] =
                        Raise([g EXCEPT !.failed = "status"], "ProviderError")]
                 \/ frame' = [frame EXCEPT ![t] =
                        Return([g EXCEPT !.retList = ProviderStatus(engines)], "List")]
       ELSE frame' = [frame EXCEPT ![t] = Return([f EXCEPT !.retList = <<>>], "List")]
    /\ UNCHANGED <<config, attrs, launch_cmd, engines, scaling_enabled, jobs, state,
                   shutdowns>>

\* ------------------------------------------------------------- shutdown()
\* Controller.close(): a failure to kill the controller process is logged inside
\* close() and does not leave it
CloseRaises(failed) == FALSE

CallShutdown(t) ==
    /\ frame[t].pc = "idle"
    \* `after`: how this caller's previous call ended, when that was a shutdown() too
    /\ frame' = [frame EXCEPT ![t] =
           [Enter("shutdown", "sd_close", 0) EXCEPT
               !.after = IF ~Finished(t, "shutdown") THEN "none"
                         ELSE IF frame[t].out = "return" /\ state = "STOPPED"
                              THEN "stopped" ELSE "failed"]]
    /\ state' = "SHUTTING_DOWN"
    /\ shutdowns' = IF "lb_view" \in attrs THEN "started" ELSE "unstarted"
    /\ UNCHANGED <<config, attrs, launch_cmd, engines, scaling_enabled, jobs>>

\* lines 307-319
Shutdown(t) ==
    LET f == frame[t] IN
    /\ f.pc = "sd_close"
    /\ IF controller
       THEN \E failed \in BOOLEAN :
            LET g == [f EXCEPT !.closes = @ + 1,
                               !.logs = IF failed
                                        THEN Append(@, "Failed to kill the ipcontroller process")
                                        ELSE @]
            IN IF CloseRaises(failed)
               THEN /\ frame' = [frame EXCEPT ![t] = Raise(g, "ControllerError")]
                    /\ state' = state
               ELSE /\ frame' = [frame EXCEPT ![t] = Return(g, ShutdownReturn)]
                    /\ state' = "STOPPED"
       ELSE /\ frame' = [frame EXCEPT ![t] = Return(f, ShutdownReturn)]
            /\ state' = "STOPPED"
    /\ UNCHANGED <<config, attrs, launch_cmd, engines, scaling_enabled, jobs,
                   shutdowns>>

\* ------------------------------------------------------------------- Next
Step(t) ==
    \/ CallStart(t)
    \/ StartBegin(t)
    \/ StartCompose(t)
    \/ StartFinish(t)
    \/ \E blocks \in 0..MaxBlocks : CallScaleOut(t, blocks)
    \/ ScaleOutIter(t)
    \/ ScaleOutDone(t)
    \/ \E blocks \in 0..MaxBlocks : CallScaleIn(t, blocks)
    \/ ScaleInStatus(t)
    \/ ScaleInCancel(t)
    \/ CallStatus(t)
    \/ StatusQuery(t)
    \/ CallShutdown(t)
    \/ Shutdown(t)

\* one caller: the manager is driven by a single thread of control
Next == ProviderAdvance \/ \E t \in SeqCallers : Step(t)

Spec == Init /\ [][Next]_vars

\* several callers: the methods take no lock (no threading.Lock, no synchronized
\* section anywhere in the class), so calls made from different threads interleave
\* at every statement that reads or writes the manager or calls the provider
ConcInit ==
    /\ Init
    /\ provider /\ controller /\ init_blocks = 0

\* caller 1 brings the pool up, grows it and shuts it down
Grower(t) ==
    \/ CallStart(t)
    \/ StartBegin(t)
    \/ StartCompose(t)
    \/ StartFinish(t)
    \/ \E blocks \in 0..MaxBlocks : CallScaleOut(t, blocks)
    \/ ScaleOutIter(t)
    \/ ScaleOutDone(t)
    \/ CallShutdown(t)
    \/ Shutdown(t)

\* caller 2 shrinks the pool and asks for its status meanwhile
Shrinker(t) ==
    \/ \E blocks \in 0..MaxBlocks : CallScaleIn(t, blocks)
    \/ ScaleInStatus(t)
    \/ ScaleInCancel(t)
    \/ CallStatus(t)
    \/ StatusQuery(t)

ConcNext == ProviderAdvance \/ Grower(1) \/ Shrinker(2)

ConcSpec == ConcInit /\ [][ConcNext]_vars

\* a manager constructed with a debug level: None (the default), the int 0, a
\* level of the documented choices, and a value that is not one of them
DebugLevels == {"None", "0", "DEBUG", "TRACE"}

DebugInit ==
    /\ engine_debug_level \in DebugLevels
    /\ Constructed

DebugSpec == DebugInit /\ [][Next]_vars

\* ================================================================ claims
Usable(sub) == ~sub.raised /\ sub.block # None
Falsy(sub) == ~sub.raised /\ sub.block = None
Blocks(subs) == [k \in 1..Len(subs) |-> subs[k].block]

\* the registry a call's scale-out loop started from: start() has just emptied it
LoopBase(f) == IF f.op = "start" THEN <<>> ELSE f.entryEngines

\* C1: when the i-th submission (0-indexed) of a scale-out of k blocks returns a falsy
\* block id, i < k, the call has raised ScalingFailed, the registry holds what it held
\* before the loop followed by exactly the i block ids submitted earlier, and that
\* submission is the call's last one: i+1 submit calls in all.
C1_PartialScaleOut ==
    \A t \in Callers :
        LET f == frame[t]
            m == Len(f.submits)
        IN \A k \in 1..m :
            Falsy(f.submits[k]) =>
                /\ k = m
                /\ k <= f.n
                /\ f.pc = "idle" /\ f.out = "raise" /\ f.exc = "ScalingFailed"
                /\ \A j \in 1..(m - 1) : Usable(f.submits[j])
                /\ engines = LoopBase(f) \o Blocks(SubSeq(f.submits, 1, m - 1))

\* a scale_out(2) whose second submission came back falsy after a first usable one
C1_Witness ==
    \E t \in Callers :
        LET f == frame[t] IN
        /\ Finished(t, "scale_out") /\ f.n = 2 /\ Len(f.submits) = 2
        /\ Usable(f.submits[1]) /\ Falsy(f.submits[2])
        /\ f.exc = "ScalingFailed"
        /\ f.submits[1].block \in Range(engines)

\* the positions of the registry a status list reports RUNNING
RunningAt(st) == {k \in 1..Len(st) : st[k] = "RUNNING"}

\* ids is made of the first c RUNNING entries of the registry, in registry order
FirstRunning(ids, engs, st, c) ==
    \E pos \in [1..c -> RunningAt(st)] :
        /\ \A a, b \in 1..c : a < b => pos[a] < pos[b]
        /\ \A a \in 1..c : ids[a] = engs[pos[a]]
        /\ \A k \in RunningAt(st) : (\E a \in 1..c : pos[a] = k) \/ (\A a \in 1..c : pos[a] < k)

\* C2: a scale_in(n), n >= 0, that goes through with the provider reporting r registered
\* blocks RUNNING makes one cancel call, for exactly min(n, r) blocks: the first
\* min(n, r) RUNNING ones in registry order; they leave the RUNNING set, and no other
\* block changes status.
C2_ScaleInSelects ==
    [][\A t \in Callers :
        LET f == frame[t]
            r == Cardinality(RunningAt(f.status))
            c == Min(f.n, r)
        IN (f.pc = "si_cancel" /\ frame'[t].pc = "idle" /\ frame'[t].out = "return") =>
            /\ Len(f.status) = Len(engines)
            /\ frame'[t].cancels = <<f.to_kill>>
            /\ Len(f.to_kill) = c
            /\ FirstRunning(f.to_kill, engines, f.status, c)
            /\ \A b \in BlockIds :
                IF b \in Range(f.to_kill) THEN jobs'[b] # "RUNNING" ELSE jobs'[b] = jobs[b]
      ]_vars

\* a scale_in(1) returned having cancelled the second registered block, the first one
\* not being RUNNING; and a scale_in(2) returned having found one block to cancel
C2_Witness ==
    \E t \in Callers :
        LET f == frame[t] IN
        /\ Finished(t, "scale_in") /\ f.out = "return"
        /\ Len(engines) = 2
        /\ \/ f.n = 1 /\ f.cancels = <<<<engines[2]>>>> /\ jobs[engines[1]] # "CANCELLED"
           \/ f.n = 2 /\ f.cancels = <<<<engines[1]>>>> /\ jobs[engines[2]] = "RUNNING"

\* C3 as stated: on a started pool with a provider, a scale_in(0) makes no cancel call
\* at all
C3_NoCancelCall ==
    \A t \in Callers :
        (provider /\ state = "ACTIVE" /\ frame[t].op = "scale_in" /\ frame[t].n = 0) =>
            frame[t].cancels = <<>>

\* C3: a scale_in(0) cancels no block: the one cancel call it makes when the status
\* query went through carries an empty list of block ids.
C3_CancelsNothing ==
    \A t \in Callers :
        LET f == frame[t] IN
        (f.op = "scale_in" /\ f.n = 0) =>
            /\ \A k \in 1..Len(f.cancels) : f.cancels[k] = <<>>
            /\ (f.pc = "idle" /\ f.out = "return") => Len(f.cancels) = 1
            /\ f.pc = "si_cancel" => f.to_kill = <<>>

\* a scale_in(0) returned while a registered block is RUNNING
C3_Witness ==
    \E t \in Callers :
        LET f == frame[t] IN
        /\ Finished(t, "scale_in") /\ f.n = 0 /\ f.out = "return"
        /\ f.cancels = << <<>> >>
        /\ \E k \in 1..Len(engines) : jobs[engines[k]] = "RUNNING"

\* C4 as stated: without a provider a scale_in(n) on a started pool returns normally,
\* having logged the error, asked the provider nothing and left the registry alone
C4_NoProviderNoOp ==
    \A t \in Callers :
        LET f == frame[t] IN
        (~provider /\ state = "ACTIVE" /\ Finished(t, "scale_in")) =>
            /\ f.out = "return"
            /\ "No execution provider available" \in Range(f.logs)
            /\ f.queries = <<>> /\ f.cancels = <<>>
            /\ engines = f.entryEngines

C6_ShutdownCancelsAll ==
    \A t \in Callers :
        LET f == frame[t] IN
        (Finished(t, "shutdown") /\ f.out = "return" /\ "lb_view" \in attrs) =>
            \A b \in Range(f.entryEngines) :
                /\ \E k \in 1..Len(f.cancels) : b \in Range(f.cancels[k])
                /\ b \notin Range(engines)

\* C7: a start() that returns on a pool whose provider has init_blocks = k >= 0 found
\* the client file, made exactly k submit calls, all answered with a usable block id,
\* and leaves the registry holding those k ids in submission order.
C7_InitialBlocks ==
    \A t \in Callers :
        LET f == frame[t] IN
        (Finished(t, "start") /\ f.out = "return" /\ provider /\ init_blocks >= 0) =>
            /\ f.client_file = "present"
            /\ Len(f.submits) = init_blocks
            /\ \A k \in 1..Len(f.submits) : Usable(f.submits[k])
            /\ engines = Blocks(f.submits)

\* a start() with init_blocks = 2 returned with two blocks registered
C7_Witness ==
    \E t \in Callers :
        /\ Finished(t, "start") /\ frame[t].out = "return"
        /\ init_blocks = 2 /\ Len(engines) = 2 /\ Len(frame[t].submits) = 2

\* C8: a start() whose initial scale-out fails (a falsy block id: ScalingFailed; an
\* exception of the provider: that exception) has logged it and raised that same
\* exception, without assigning the load-balanced view and without the pool becoming
\* ACTIVE; a start() that assigned the view, or left the pool ACTIVE, returned after
\* an initial scale-out in which every submission went through.
C8_StartAbortsOnScaleOutFailure ==
    \A t \in Callers :
        LET f == frame[t]
            m == Len(f.submits)
        IN f.op = "start" =>
            /\ (m >= 1 /\ ~Usable(f.submits[m])) =>
                /\ f.pc = "idle" /\ f.out = "raise"
                /\ f.exc = (IF f.submits[m].raised THEN "ProviderError" ELSE "ScalingFailed")
                /\ "Scaling out failed" \in Range(f.logs)
                /\ ~f.lb_view
                /\ state # "ACTIVE"
            /\ (f.lb_view \/ state = "ACTIVE") =>
                /\ f.pc = "idle" /\ f.out = "return"
                /\ "lb_view" \in attrs
                /\ \A k \in 1..m : Usable(f.submits[k])
                /\ (provider /\ init_blocks >= 0) => m = init_blocks

\* a first start() with init_blocks = 2 raised ScalingFailed on its second submission
C8_Witness ==
    \E t \in Callers :
        LET f == frame[t] IN
        /\ Finished(t, "start") /\ f.out = "raise" /\ f.exc = "ScalingFailed"
        /\ Len(f.submits) = 2 /\ Len(engines) = 1
        /\ "lb_view" \notin attrs /\ state = "STARTING"

\* C9: a start() that finds the client file missing after the wait has raised, with no
\* launch command composed, no submit call, no view and the pool not ACTIVE; a start()
\* whose wait expired but which finds the file does not raise for it.
C9_MissingClientFile ==
    \A t \in Callers :
        LET f == frame[t] IN
        f.op = "start" =>
            /\ f.client_file = "missing" =>
                /\ f.pc = "idle" /\ f.out = "raise" /\ f.exc = "Exception"
                /\ f.composed = 0 /\ f.submits = <<>>
                /\ ~f.lb_view /\ state # "ACTIVE"
                /\ engines = f.entryEngines
            /\ (f.waited = "expired" /\ f.client_file = "present") =>
                ~(f.out = "raise" /\ f.exc = "Exception")

\* a start() raised because the client file was still missing when the wait expired
C9_Witness ==
    \E t \in Callers :
        LET f == frame[t] IN
        /\ Finished(t, "start") /\ f.waited = "expired" /\ f.client_file = "missing"
        /\ f.out = "raise" /\ "launch_cmd" \notin attrs

\* C10 as stated: once shutdown() has been called on a started pool, the pool is never
\* ACTIVE again
C10_NoReactivation == shutdowns = "started" => state # "ACTIVE"

Underway(t) ==
    LET f == frame[t] IN
    \/ f.op = "start" /\ f.pc \in {"start_compose", "so_loop", "start_finish"}
    \/ f.op = "scale_out" /\ f.pc = "so_loop" /\ f.i >= 1
    \/ f.op = "scale_in" /\ f.pc = "si_cancel"

\* C12: the registry-mutating calls are serialized: at no time are two of them, made
\* by different callers, in progress at once (a scale_in that has read the registry
\* while a scale_out has submitted some of its blocks and not yet returned).
C12_Serialized ==
    \A t1, t2 \in Callers : t1 # t2 => ~(Underway(t1) /\ Underway(t2))

\* C13: every submit call of the call in progress (the initial scale-out of start()
\* or a later scale_out) was made with the command that start() composed and that
\* the pool still holds, and with the configured workers-per-block count; a
\* scale_out composes nothing.
C13_LaunchCommandReused ==
    \A t \in Callers :
        LET f == frame[t] IN
        /\ \A k \in 1..Len(f.submits) :
              /\ "launch_cmd" \in attrs /\ launch_cmd.composed
              /\ f.submits[k].cmd = launch_cmd
              /\ f.submits[k].workers = DefaultWorkers
        /\ f.op = "scale_out" => f.composed = 0
        /\ f.op = "start" => f.composed <= 1

\* a scale_out after a second start() has submitted two blocks with the command of
\* that second start()
C13_Witness ==
    \E t \in Callers :
        LET f == frame[t] IN
        /\ Finished(t, "scale_out") /\ Len(f.submits) = 2
        /\ \A k \in 1..2 : Usable(f.submits[k]) /\ f.submits[k].cmd = launch_cmd
        /\ launch_cmd.uid = 2

\* C14: when the provider's status or cancel raises inside status() or scale_in(n),
\* the call ends by raising that exception, the registry is as it was when the call
\* was made, and a scale_in whose status query raised has made no cancel call.
C14_ProviderErrorsPropagate ==
    \A t \in Callers :
        LET f == frame[t] IN
        (f.op \in {"status", "scale_in"} /\ f.failed \in {"status", "cancel"}) =>
            /\ f.pc = "idle" /\ f.out = "raise" /\ f.exc = "ProviderError"
            /\ engines = f.entryEngines
            /\ f.failed = "status" => f.cancels = <<>>

\* the status query of a scale_in(n), n >= 1, raised while a RUNNING block was
\* registered
C14_Witness ==
    \E t \in Callers :
        LET f == frame[t] IN
        /\ Finished(t, "scale_in") /\ f.failed = "status" /\ f.n >= 1
        /\ \E k \in 1..Len(engines) : JobStatus(engines[k]) = "RUNNING"

\* C15: with no provider configured, a status() call makes no provider call, does
\* not raise, and returns an empty list, whatever the state of the pool.
C15_StatusWithoutProvider ==
    \A t \in Callers :
        LET f == frame[t] IN
        (~provider /\ f.op = "status") =>
            /\ f.queries = <<>> /\ f.submits = <<>> /\ f.cancels = <<>>
            /\ f.out # "raise"
            /\ f.pc = "idle" => f.out = "return" /\ f.ret = "List" /\ f.retList = <<>>

\* status() has returned on a pool without provider that was started and shut down
C15_Witness ==
    \E t \in Callers :
        /\ ~provider /\ Finished(t, "status") /\ frame[t].out = "return"
        /\ state = "STOPPED" /\ shutdowns = "started"

\* C16: once start() has set the mode of a pool without provider, scaling_enabled is
\* false and the registry is empty, and a scale_out(n) submits nothing, does not
\* raise and returns after logging the one error "No execution provider available".
C16_NonElastic ==
    (~provider /\ "_scaling_enabled" \in attrs) =>
        /\ scaling_enabled = FALSE
        /\ engines = <<>>
        /\ \A t \in Callers :
              LET f == frame[t] IN
              f.op = "scale_out" =>
                  /\ f.submits = <<>> /\ f.out # "raise"
                  /\ f.pc = "idle" =>
                        /\ f.out = "return"
                        /\ f.logs = <<"No execution provider available">>

\* scale_out(2) has returned on a started pool without provider
C16_Witness ==
    \E t \in Callers :
        /\ ~provider /\ state = "ACTIVE" /\ "_scaling_enabled" \in attrs
        /\ Finished(t, "scale_out") /\ frame[t].n = 2 /\ frame[t].out = "return"

\* line 64, the choices of engine_debug_level, as a command line shows them
DebugChoices == {"0", "10", "20", "30", "40", "50",
                 "DEBUG", "INFO", "WARN", "ERROR", "CRITICAL"}

\* C17: a manager whose debug level is set and is not one of the choices is never
\* constructed, so no call of start() is ever made on one and no launch command
\* carrying such a level is ever handed to the provider.
C17_DebugLevelValidated ==
    (engine_debug_level \notin DebugChoices \cup {"None"}) =>
        /\ state = "UNSTARTED"
        /\ \A t \in Callers : frame[t].submits = <<>>

\* the block ids of the submissions that returned one, in submission order
UsableBlocks(subs) == Blocks(SelectSeq(subs, Usable))

\* C18: the registry changes only by scale_out appending the ids it was given, in
\* order, and by start() emptying it: during and after a scale_in, a status() or a
\* shutdown() it is what it was when the call was made, and every status query of
\* the call was made on the whole registry, cancelled blocks included.
C18_RegistryFrame ==
    \A t \in Callers :
        LET f == frame[t] IN
        /\ f.op \in {"scale_in", "status", "shutdown"} => engines = f.entryEngines
        /\ f.op = "scale_out" => engines = f.entryEngines \o UsableBlocks(f.submits)
        /\ f.op = "start" =>
              engines = IF f.composed = 0 THEN f.entryEngines
                        ELSE UsableBlocks(f.submits)
        /\ \A k \in 1..Len(f.queries) : f.queries[k] = engines
        /\ (provider /\ f.op \in {"scale_in", "status"} /\ f.pc = "idle"
               /\ f.out = "return") => f.queries = <<engines>>

\* a status() has returned the status of a registry of two blocks, one of which a
\* scale_in had cancelled
C18_Witness ==
    \E t \in Callers :
        LET f == frame[t] IN
        /\ Finished(t, "status") /\ f.out = "return"
        /\ Len(engines) = 2 /\ f.queries = <<engines>>
        /\ \E k \in 1..2 : JobStatus(engines[k]) = "CANCELLED" /\ f.retList[k] = "CANCELLED"

\* C19: on a started pool with a provider, a scale_out(n) that has returned, all its n
\* submissions having given a block id, has not logged "No execution provider
\* available".
C19_NoProviderLogOnlyWithoutProvider ==
    \A t \in Callers :
        LET f == frame[t] IN
        (/\ provider /\ state = "ACTIVE"
         /\ Finished(t, "scale_out") /\ f.out = "return"
         /\ Len(f.submits) = f.n /\ \A k \in 1..f.n : Usable(f.submits[k])) =>
            "No execution provider available" \notin Range(f.logs)

\* C20: once a shutdown() of a started pool has returned, no later call submits to
\* the provider: a scale_out made on the stopped pool has no submit call.
C20_NoSubmitAfterShutdown ==
    \A t \in Callers :
        LET f == frame[t] IN
        (state = "STOPPED" /\ shutdowns = "started" /\ f.op = "scale_out") =>
            f.submits = <<>>

====
